---- MODULE Spec2Model ----
(***************************************************************************)
(* Model of the disk-buffered S3 sink of manifold (package stream, type    *)
(* S3): the ingestion channel, the collector goroutine that appends        *)
(* records to <root>/buffer, the roll goroutine that renames the buffer    *)
(* into <root>/<day>/<time>, and the uploader goroutine that walks the     *)
(* root, uploads every sealed file and removes it.                         *)
(*                                                                         *)
(* The file system is modelled with inodes: a directory entry names an     *)
(* inode, an open file descriptor holds an inode, os.Rename moves the      *)
(* entry and os.Remove drops it, neither touches the inode's bytes.        *)
(***************************************************************************)
EXTENDS Integers, Sequences, FiniteSets, TLC

(* ------------------------------ bounds -------------------------------- *)
\* number of Write calls the producer makes
MaxWrites == 3
\* capacity of the messages channel, scaled down from make(chan string, 1000)
QueueCap == 2
\* bytes per KB, scaled down from the literal 1024
KBytes == 3
\* seconds per minute, scaled down from 60
MinuteSecs == 2
\* seconds per day, scaled down from 86400
DaySecs == 2
\* the clock stops advancing here
MaxTime == 2
\* number of times the wall clock is set back (SpecWall)
MaxBack == 1

(* --------------------------- configuration ---------------------------- *)
CommitFileSize == 1
CommitDuration == 1
UploadEvery == 1
Folder == "folder"

\* the byte "\n"; record bytes are 1 and 2
NL == 0
\* the records a producer may write: no embedded newline
Msgs == {<<1>>, <<2, 2>>}
\* the producer's next record: it never repeats the record before it, so that
\* a repeated or swapped record shows in the bytes on disk
NextMsgs(history) ==
    IF history = <<>> THEN Msgs ELSE Msgs \ {history[Len(history)]}

(* ------------------------------ state --------------------------------- *)
VARIABLES
    queue,          \* s.buffer.messages: buffered records, oldest first
    closed,         \* the channel has been closed
    exit,           \* "running", or why the process ended
    rootExists,     \* s.buffer.path exists on disk
    dayDirs,        \* the day directories under the root
    live,           \* inode of <root>/buffer, 0 when the entry is absent
    units,          \* sealed files: path <<day, sec, sub>> -> inode
    inodes,         \* inode number -> bytes of the file
    remote,         \* objects of the bucket: key -> bytes
    now,            \* wall clock, in seconds
    subsec,         \* sub-second part of the clock: rotations stamped this second
    cPc, cMsg, cFd, \* collector: position, record in hand, open descriptor (inode)
    rPc, timeCommitted, rWake, commitPath,   \* roll goroutine
    uPc, uWake, uDays, uSawBuffer, files, body,   \* uploader
    accepted,       \* history: records Write has put into the channel
    taken,          \* history: records the collector has received
    inflight,       \* history: records received whose append never wrote (0 or 1)
    sealed,         \* history: <<path, inode, bytes at the rename>> of every rename, in order
    failed,         \* history: paths whose Upload returned an error
    removed,        \* history: paths os.Remove has deleted
    queuedAtClose,  \* history: the channel's content when Disconnect closed it
    wallBack,       \* seconds the wall clock has been set back since the start
    ex,             \* the 1 KB / 10-byte-record scenario (SpecEx): sizes only
    kx              \* one remote key computation on path strings (SpecKey)

chanVars == <<queue, closed>>
fsVars   == <<rootExists, dayDirs, live, units, inodes>>
colVars  == <<cPc, cMsg, cFd>>
rollVars == <<rPc, timeCommitted, rWake, commitPath>>
upVars   == <<uPc, uWake, uDays, uSawBuffer, files, body>>
histVars == <<accepted, taken, inflight, sealed, failed, removed, queuedAtClose>>
sinkVars == <<chanVars, exit, fsVars, remote, now, subsec, colVars, rollVars,
              upVars, histVars>>
\* what the sink's actions leave alone: the wall clock's setting is the
\* environment's, ex and kx belong to SpecEx and SpecKey
sideVars == <<wallBack, ex, kx>>
vars == <<sinkVars, sideVars>>

NoPath == <<>>

\* the sink after Connect
SinkInit ==
    /\ queue = <<>> /\ closed = FALSE /\ exit = "running"
    /\ rootExists = FALSE /\ dayDirs = {} /\ live = 0
    /\ units = <<>> /\ inodes = <<>> /\ remote = <<>>
    /\ now = 0 /\ subsec = 0
    /\ cPc = "mkdir" /\ cMsg = <<>> /\ cFd = 0
    /\ rPc = "off" /\ timeCommitted = 0 /\ rWake = 0 /\ commitPath = NoPath
    /\ uPc = "dirExists" /\ uWake = 0 /\ uDays = {} /\ uSawBuffer = FALSE
    /\ files = <<>> /\ body = <<>>
    /\ accepted = <<>> /\ taken = <<>> /\ inflight = 0 /\ sealed = <<>>
    /\ failed = {} /\ removed = {}
    /\ queuedAtClose = <<>>

\* ex and kx outside their specifications
ExOff == [cPc |-> "off"]
KxOff == [stage |-> "off"]

Init == SinkInit /\ wallBack = 0 /\ ex = ExOff /\ kx = KxOff

Running == exit = "running"

(* ------------------------------ the clock ----------------------------- *)
Tick ==
    /\ Running /\ now < MaxTime
    /\ now' = now + 1 /\ subsec' = 0
    /\ UNCHANGED <<chanVars, exit, fsVars, remote, colVars, rollVars, upVars, histVars>>
    /\ UNCHANGED sideVars

(* ------------------------------ helpers ------------------------------- *)
\* outcome of a system call or of a transfer
IOResult == {"ok", "err"}

\* log.Fatal, log.Fatalln, panic: the process exits. Its memory is gone (the
\* channel with the records still buffered, every goroutine's locals and
\* open descriptors); the disk and the bucket stay as they are.
ExitMemory ==
    /\ queue' = <<>> /\ closed' = FALSE
    /\ cPc' = "dead" /\ cMsg' = <<>> /\ cFd' = 0
    /\ rPc' = "dead" /\ timeCommitted' = 0 /\ rWake' = 0 /\ commitPath' = NoPath
    /\ uPc' = "dead" /\ uWake' = 0 /\ uDays' = {} /\ uSawBuffer' = FALSE
    /\ files' = <<>> /\ body' = <<>>

Fatal(cause) ==
    /\ exit' = cause
    /\ ExitMemory
    /\ UNCHANGED <<fsVars, remote, now, subsec, histVars>>

\* msg + "\n" appended to the bytes of a file
AppendBytes(content, msg) == content \o msg \o <<NL>>

\* info.Size()
Size(ino) == Len(inodes[ino])

(* --------------------------- Sink facade ------------------------------ *)
\* mutant of Enqueue: the record jumps the queue
EnqueueFront(q, m) == <<m>> \o q

\* the channel send of Write
Enqueue(q, m) == Append(q, m)

\* mutant of CanSend: a send completes at a full channel too
CanSendAlways(q) == TRUE

\* a send completes only while the channel buffer has a free slot
CanSend(q) == Len(q) < QueueCap

\* Write: blocks while the channel is full; a send on a closed channel panics
Write(m) ==
    /\ Running /\ Len(accepted) < MaxWrites
    /\ IF closed
       THEN Fatal("panic")
       ELSE /\ CanSend(queue)
            /\ queue' = Enqueue(queue, m)
            /\ accepted' = Append(accepted, m)
            /\ UNCHANGED <<closed, exit, fsVars, remote, now, subsec, colVars,
                           rollVars, upVars, taken, inflight, sealed, failed,
                           removed, queuedAtClose>>
    /\ UNCHANGED sideVars

\* Disconnect: close(s.buffer.messages); closing a closed channel panics
Disconnect ==
    /\ Running
    /\ IF closed
       THEN Fatal("panic")
       ELSE /\ closed' = TRUE
            /\ queuedAtClose' = queue
            /\ UNCHANGED <<queue, exit, fsVars, remote, now, subsec, colVars,
                           rollVars, upVars, accepted, taken, inflight, sealed,
                           failed, removed>>
    /\ UNCHANGED sideVars

(* ------------------------------ collector ----------------------------- *)
\* collector(): os.MkdirAll(s.buffer.path), then start the two goroutines
ColMkdir ==
    /\ Running /\ cPc = "mkdir"
    /\ \E res \in IOResult :
         IF res = "err"
         THEN Fatal("fatal")
         ELSE /\ rootExists' = TRUE
              /\ cPc' = "recv" /\ rPc' = "start"
              /\ UNCHANGED <<chanVars, exit, dayDirs, live, units, inodes, remote,
                             now, subsec, cMsg, cFd, timeCommitted, rWake,
                             commitPath, upVars, histVars>>
    /\ UNCHANGED sideVars

\* mutant of RecvOk: a closed channel yields nothing, buffered records or not
RecvOkUnlessClosed(q, isClosed) == q # <<>> /\ ~isClosed

\* msg, ok := <-s.buffer.messages: ok while a buffered record is left,
\* also after the channel was closed
RecvOk(q, isClosed) == q # <<>>

ColRecv ==
    /\ Running /\ cPc = "recv"
    /\ queue # <<>> \/ closed
    /\ IF RecvOk(queue, closed)
       THEN /\ cMsg' = Head(queue)
            /\ queue' = Tail(queue)
            /\ taken' = Append(taken, Head(queue))
            /\ inflight' = inflight + 1
            /\ cPc' = "open"
       ELSE /\ cPc' = "done"
            /\ UNCHANGED <<queue, cMsg, taken, inflight>>
    /\ UNCHANGED <<closed, exit, fsVars, remote, now, subsec, cFd, rollVars,
                   upVars, accepted, sealed, failed, removed, queuedAtClose>>
    /\ UNCHANGED sideVars

\* the inode table after open(O_APPEND|O_CREATE) of <root>/buffer
OpenCreate(table, entry) == IF entry = 0 THEN Append(table, <<>>) ELSE table

\* swissarmy.AppendFile, first half: open the buffer, creating it if absent
ColOpen ==
    /\ Running /\ cPc = "open"
    /\ \E res \in IOResult :
         IF res = "err"
         THEN Fatal("fatal")
         ELSE /\ inodes' = OpenCreate(inodes, live)
              /\ live' = IF live = 0 THEN Len(inodes) + 1 ELSE live
              /\ cFd' = live'
              /\ cPc' = "write"
              /\ UNCHANGED <<chanVars, exit, rootExists, dayDirs, units, remote,
                             now, subsec, cMsg, rollVars, upVars, histVars>>
    /\ UNCHANGED sideVars

\* swissarmy.AppendFile, second half: write msg+"\n" through the descriptor
\* and close it
ColWrite ==
    /\ Running /\ cPc = "write"
    /\ \E res \in IOResult :
         IF res = "err"
         THEN Fatal("fatal")
         ELSE /\ inodes' = [inodes EXCEPT ![cFd] = AppendBytes(@, cMsg)]
              /\ cFd' = 0 /\ cMsg' = <<>>
              /\ inflight' = inflight - 1
              /\ cPc' = "recv"
              /\ UNCHANGED <<chanVars, exit, rootExists, dayDirs, live, units,
                             remote, now, subsec, rollVars, upVars, accepted,
                             taken, sealed, failed, removed, queuedAtClose>>
    /\ UNCHANGED sideVars

(* --------------------------- roll goroutine --------------------------- *)
\* int(time.Since(timeCommitted).Minutes())
Minutes(secs) == secs \div MinuteSecs

\* mutant of ShouldCommit: the size threshold compared with > instead of >=
ShouldCommitStrict(size, since) ==
    \/ size > CommitFileSize * KBytes
    \/ Minutes(since) >= CommitDuration

\* mutant of ShouldCommit: the two thresholds joined with && instead of ||
ShouldCommitBoth(size, since) ==
    /\ size >= CommitFileSize * KBytes
    /\ Minutes(since) >= CommitDuration

\* fileSizeReached || durationElapsed
ShouldCommit(size, since) ==
    \/ size >= CommitFileSize * KBytes
    \/ Minutes(since) >= CommitDuration

\* time.Now() as Format prints it: the local wall clock, which the environment
\* can set back (the end of daylight saving time, a clock correction);
\* time.Since and time.Sleep go by the monotonic clock, now
WallNow == now - wallBack

\* currentTime.Format("2006-01-02") and currentTime.Format("150405.000000000")
Day(t) == t \div DaySecs
CommitPathAt(t, sub) == <<Day(t), t % DaySecs, sub>>

\* timeCommitted := time.Now()
RollStart ==
    /\ Running /\ rPc = "start"
    /\ timeCommitted' = now
    /\ rPc' = "check"
    /\ UNCHANGED <<chanVars, exit, fsVars, remote, now, subsec, colVars, rWake,
                   commitPath, upVars, histVars>>
    /\ UNCHANGED sideVars

\* one pass of the loop up to the rename: FileExists, Stat, the two
\* thresholds, time.Now(), MkdirAll of the day directory
RollCheck ==
    /\ Running /\ rPc = "check"
    /\ \E res \in IOResult :
         IF res = "err"
         THEN Fatal("fatal")
         ELSE IF live = 0
         THEN /\ rPc' = "sleep" /\ rWake' = now + 1
              /\ UNCHANGED <<chanVars, exit, fsVars, remote, now, subsec, colVars,
                             timeCommitted, commitPath, upVars, histVars>>
         ELSE IF ShouldCommit(Size(live), now - timeCommitted)
         THEN /\ commitPath' = CommitPathAt(WallNow, subsec)
              /\ subsec' = subsec + 1
              /\ dayDirs' = dayDirs \cup {Day(WallNow)}
              /\ rPc' = "rename"
              /\ UNCHANGED <<chanVars, exit, rootExists, live, units, inodes,
                             remote, now, colVars, timeCommitted, rWake, upVars,
                             histVars>>
         ELSE UNCHANGED vars
    /\ UNCHANGED sideVars

\* time.Sleep(1 * time.Second)
RollSleep ==
    /\ Running /\ rPc = "sleep" /\ now >= rWake
    /\ rPc' = "check" /\ rWake' = 0
    /\ UNCHANGED <<chanVars, exit, fsVars, remote, now, subsec, colVars,
                   timeCommitted, commitPath, upVars, histVars>>
    /\ UNCHANGED sideVars

\* the directory of sealed files after os.Rename(bufferPath, commitPath)
RenameInto(dir, path, ino) ==
    [p \in DOMAIN dir \cup {path} |-> IF p = path THEN ino ELSE dir[p]]

\* mutant of LiveAfterRename: the buffer entry stays, as after a link or copy
LiveAfterRenameKept(ino) == ino

\* the buffer entry after os.Rename
LiveAfterRename(ino) == 0

\* os.Rename(bufferPath, commitPath)
RollRename ==
    /\ Running /\ rPc = "rename"
    /\ \E res \in IOResult :
         IF res = "err"
         THEN Fatal("fatal")
         ELSE /\ units' = RenameInto(units, commitPath, live)
              /\ live' = LiveAfterRename(live)
              /\ sealed' = Append(sealed, <<commitPath, live, inodes[live]>>)
              /\ commitPath' = NoPath
              /\ rPc' = "stamp"
              /\ UNCHANGED <<chanVars, exit, rootExists, dayDirs, inodes, remote,
                             now, subsec, colVars, timeCommitted, rWake, upVars,
                             accepted, taken, inflight, failed, removed,
                             queuedAtClose>>
    /\ UNCHANGED sideVars

\* timeCommitted = time.Now()
RollStamp ==
    /\ Running /\ rPc = "stamp"
    /\ timeCommitted' = now
    /\ rPc' = "check"
    /\ UNCHANGED <<chanVars, exit, fsVars, remote, now, subsec, colVars, rWake,
                   commitPath, upVars, histVars>>
    /\ UNCHANGED sideVars

(* ------------------------------ uploader ------------------------------ *)
\* the name "buffer"; the names of sealed files are made of numbers, which
\* are never negative
BufferName == -1

\* bufferPath relative to the root: the live file
BufferPath == <<BufferName>>

\* info.Name(): the last element of a path
BaseName(p) == p[Len(p)]

\* lexical order of two paths under the root: <day>/<time> by their digits,
\* and the digits of a day before the letters of "buffer"
PathBefore(p, q) ==
    IF p = BufferPath THEN FALSE
    ELSE IF q = BufferPath THEN TRUE
    ELSE \/ p[1] < q[1]
         \/ p[1] = q[1] /\ p[2] < q[2]
         \/ p[1] = q[1] /\ p[2] = q[2] /\ p[3] < q[3]

\* the order in which filepath.Walk visits a set of files
RECURSIVE WalkOrder(_)
WalkOrder(S) ==
    IF S = {} THEN <<>>
    ELSE LET first == CHOOSE p \in S : \A q \in S \ {p} : PathBefore(p, q)
         IN  <<first>> \o WalkOrder(S \ {first})

\* the regular files the walk calls the walk function for: the files of the
\* day directories that were listed, and the live file if it was listed
Visited(days, sawBuffer) ==
    {p \in DOMAIN units : p[1] \in days}
        \cup (IF sawBuffer THEN {BufferPath} ELSE {})

\* mutant of WalkFnSkips: no file is skipped by its name
WalkFnSkipsNone(p) == FALSE

\* if info.IsDir() || info.Name() == "buffer" { return nil }, for a regular
\* file
WalkFnSkips(p) == BaseName(p) = BufferName

\* the files the walk function appends, in the order of the walk
Collected(days, sawBuffer) ==
    WalkOrder({p \in Visited(days, sawBuffer) : ~WalkFnSkips(p)})

\* strings.Replace(file, s.buffer.path, "", 1), filepath.Join(Folder, key)
Key(file) == <<Folder>> \o file

\* swissarmy.DirExists(s.buffer.path), and the one second sleep when absent
UpDirExists ==
    /\ Running /\ uPc = "dirExists"
    /\ \E res \in IOResult :
         IF res = "err"
         THEN Fatal("fatal")
         ELSE /\ IF rootExists
                 THEN uPc' = "walk" /\ UNCHANGED uWake
                 ELSE uPc' = "sleepNoRoot" /\ uWake' = now + 1
              /\ UNCHANGED <<chanVars, exit, fsVars, remote, now, subsec, colVars,
                             rollVars, uDays, uSawBuffer, files, body, histVars>>
    /\ UNCHANGED sideVars

\* time.Sleep has elapsed
UpSleep ==
    /\ Running /\ uPc \in {"sleep", "sleepNoRoot"} /\ now >= uWake
    /\ uPc' = "dirExists" /\ uWake' = 0
    /\ UNCHANGED <<chanVars, exit, fsVars, remote, now, subsec, colVars, rollVars,
                   uDays, uSawBuffer, files, body, histVars>>
    /\ UNCHANGED sideVars

\* filepath.Walk, first half: the names of the root directory are read
UpWalkRoot ==
    /\ Running /\ uPc = "walk"
    /\ \E res \in IOResult :
         IF res = "err"
         THEN Fatal("walkPanic")
         ELSE /\ uDays' = dayDirs
              /\ uSawBuffer' = (live # 0)
              /\ uPc' = "visit"
              /\ UNCHANGED <<chanVars, exit, fsVars, remote, now, subsec, colVars,
                             rollVars, uWake, files, body, histVars>>
    /\ UNCHANGED sideVars

\* filepath.Walk, second half: every listed name is lstat-ed and visited;
\* a listed name that is gone by then is a walk error, and the walk error
\* is a panic
UpWalkVisit ==
    /\ Running /\ uPc = "visit"
    /\ IF uSawBuffer /\ live = 0
       THEN Fatal("walkPanic")
       ELSE /\ files' = Collected(uDays, uSawBuffer)
            /\ uDays' = {} /\ uSawBuffer' = FALSE
            /\ IF files' = <<>>
               THEN uPc' = "sleep" /\ uWake' = now + UploadEvery
               ELSE uPc' = "read" /\ UNCHANGED uWake
            /\ UNCHANGED <<chanVars, exit, fsVars, remote, now, subsec, colVars,
                           rollVars, body, histVars>>
    /\ UNCHANGED sideVars

\* ioutil.ReadFile(file)
UpRead ==
    /\ Running /\ uPc = "read"
    /\ \E res \in IOResult :
         IF res = "err" \/ Head(files) \notin DOMAIN units
         THEN Fatal("fatal")
         ELSE /\ body' = inodes[units[Head(files)]]
              /\ uPc' = "upload"
              /\ UNCHANGED <<chanVars, exit, fsVars, remote, now, subsec, colVars,
                             rollVars, uWake, uDays, uSawBuffer, files, histVars>>
    /\ UNCHANGED sideVars

\* the bucket after a successful Upload of body under key
PutObject(bucket, key, bytes) ==
    [k \in DOMAIN bucket \cup {key} |-> IF k = key THEN bytes ELSE bucket[k]]

\* log.Fatalln("Failed to upload file: ", file)
UploadFatal(file) ==
    /\ exit' = "uploadFatal"
    /\ failed' = failed \cup {file}
    /\ ExitMemory
    /\ UNCHANGED <<fsVars, remote, now, subsec, accepted, taken, inflight, sealed,
                   removed, queuedAtClose>>

\* uploader.Upload(...): an error is fatal
UpUpload ==
    /\ Running /\ uPc = "upload"
    /\ \E res \in IOResult :
         IF res = "err"
         THEN UploadFatal(Head(files))
         ELSE /\ remote' = PutObject(remote, Key(Head(files)), body)
              /\ uPc' = "remove"
              /\ UNCHANGED <<chanVars, exit, fsVars, now, subsec, colVars, rollVars,
                             uWake, uDays, uSawBuffer, files, body, histVars>>
    /\ UNCHANGED sideVars

\* the directory of sealed files after os.Remove(file)
RemoveEntry(dir, path) == [p \in DOMAIN dir \ {path} |-> dir[p]]

\* os.Remove(file): an error is logged and the loop goes on; after the last
\* file, time.Sleep(UploadEvery seconds)
UpRemove ==
    /\ Running /\ uPc = "remove"
    /\ \E res \in IOResult :
         /\ IF res = "err"
            THEN UNCHANGED <<units, removed>>
            ELSE /\ units' = RemoveEntry(units, Head(files))
                 /\ removed' = removed \cup {Head(files)}
         /\ files' = Tail(files) /\ body' = <<>>
         /\ IF files' = <<>>
            THEN uPc' = "sleep" /\ uWake' = now + UploadEvery
            ELSE uPc' = "read" /\ UNCHANGED uWake
    /\ UNCHANGED <<chanVars, exit, rootExists, dayDirs, live, inodes, remote, now,
                   subsec, colVars, rollVars, uDays, uSawBuffer, accepted,
                   taken, inflight, sealed, failed, queuedAtClose>>
    /\ UNCHANGED sideVars

(* --------------------------- specification ---------------------------- *)
Next ==
    \/ Tick
    \/ \E m \in NextMsgs(accepted) : Write(m)
    \/ Disconnect
    \/ ColMkdir
    \/ ColRecv
    \/ ColOpen
    \/ ColWrite
    \/ RollStart
    \/ RollCheck
    \/ RollSleep
    \/ RollRename
    \/ RollStamp
    \/ UpDirExists
    \/ UpSleep
    \/ UpWalkRoot
    \/ UpWalkVisit
    \/ UpRead
    \/ UpUpload
    \/ UpRemove

Spec == Init /\ [][Next]_vars

(* ------------------- the wall clock being set back -------------------- *)
\* the environment sets the local wall clock back by one second (the clock
\* time.Now() reads for the names of the sealed files)
ClockBack ==
    /\ Running /\ wallBack < MaxBack /\ WallNow > 0
    /\ wallBack' = wallBack + 1
    /\ UNCHANGED <<sinkVars, ex, kx>>

NextWall == Next \/ ClockBack

\* the sink under a wall clock that can be set back
SpecWall == Init /\ [][NextWall]_vars

(* ------ the example: 1 KB, 60 minutes, 2000 bytes of 10-byte records ----- *)
\* The collector's append and the roll goroutine's loop on the sizes of the
\* files alone, at the example's own scale; no system call fails.

\* the producer writes ExRecords records of ExRecordLen bytes each
ExRecords == 200
ExRecordLen == 10
\* the whole run lasts at most this many minutes
ExMaxMinutes == 1
\* Config.CommitFileSize (KB), Config.CommitDuration (minutes), and 1024
ExCommitFileSize == 1
ExCommitDuration == 60
ExKB == 1024

\* mutant of ExLine: the record without its newline
ExLineBare(len) == len

\* len(msg + "\n")
ExLine(len) == len + 1

\* no live file, nothing received, the roll goroutine at the top of its loop
ExStart ==
    [cPc |-> "recv", got |-> 0, hasLive |-> FALSE, live |-> 0, fd |-> "none",
     rPc |-> "check", units |-> <<>>]

InitEx == SinkInit /\ wallBack = 0 /\ kx = KxOff /\ ex = ExStart

ExStep(next) == ex' = next /\ UNCHANGED <<sinkVars, wallBack, kx>>

\* msg, ok := <-s.buffer.messages
ExRecv ==
    /\ ex.cPc = "recv" /\ ex.got < ExRecords
    /\ ExStep([ex EXCEPT !.cPc = "open", !.got = @ + 1])

\* AppendFile opens <root>/buffer, creating it empty if absent
ExOpen ==
    /\ ex.cPc = "open"
    /\ ExStep([ex EXCEPT !.cPc = "write", !.fd = "live", !.hasLive = TRUE,
                         !.live = IF ex.hasLive THEN @ ELSE 0])

\* AppendFile writes msg+"\n" through its descriptor: into the live file, or
\* into the file sealed since the open
ExWrite ==
    /\ ex.cPc = "write"
    /\ ExStep(IF ex.fd = "live"
              THEN [ex EXCEPT !.cPc = "recv", !.fd = "none",
                              !.live = @ + ExLine(ExRecordLen)]
              ELSE [ex EXCEPT !.cPc = "recv", !.fd = "none",
                              !.units[Len(ex.units)] = @ + ExLine(ExRecordLen)])

\* fileSizeReached || durationElapsed
ExShouldCommit(size, minutes) ==
    \/ size >= ExCommitFileSize * ExKB
    \/ minutes >= ExCommitDuration

\* a pass of the roll loop that finds the file and a threshold met (a pass
\* that does not changes nothing)
ExCheck ==
    /\ ex.rPc = "check" /\ ex.hasLive
    /\ \E minutes \in 0..ExMaxMinutes : ExShouldCommit(ex.live, minutes)
    /\ ExStep([ex EXCEPT !.rPc = "rename"])

\* os.Rename(bufferPath, commitPath): an open descriptor follows the file
ExRename ==
    /\ ex.rPc = "rename"
    /\ ExStep([ex EXCEPT !.rPc = "check", !.units = Append(@, ex.live),
                         !.hasLive = FALSE, !.live = 0,
                         !.fd = IF @ = "live" THEN "unit" ELSE @])

NextEx == ExRecv \/ ExOpen \/ ExWrite \/ ExCheck \/ ExRename

SpecEx == InitEx /\ [][NextEx]_vars

(* ---------- the remote key of a sealed file, on path strings ---------- *)
\* A path string is a sequence of elements: the separator "/", the name "."
\* and other names, each name one element. (No path here has a ".." name.)
Sep == "/"
Dot == "."

\* the names filepath.Clean keeps: not the empty ones, not "."
CleanNames(s) == SelectSeq(s, LAMBDA c : c # Sep /\ c # Dot)

\* names with one separator between two of them
RECURSIVE Joined(_)
Joined(names) ==
    IF Len(names) <= 1 THEN names
    ELSE <<Head(names), Sep>> \o Joined(Tail(names))

\* filepath.Clean: "" becomes ".", a rooted path stays rooted, separators are
\* not repeated and none trails
Clean(s) ==
    IF s = <<>> THEN <<Dot>>
    ELSE IF s[1] = Sep THEN <<Sep>> \o Joined(CleanNames(s))
    ELSE IF CleanNames(s) = <<>> THEN <<Dot>>
    ELSE Joined(CleanNames(s))

\* filepath.Join(a, b): empty elements are ignored, the result is cleaned
JoinPath(a, b) ==
    IF a = <<>> /\ b = <<>> THEN <<>>
    ELSE IF a = <<>> THEN Clean(b)
    ELSE IF b = <<>> THEN Clean(a)
    ELSE Clean(a \o <<Sep>> \o b)

\* strings.Replace(s, old, "", 1): the first occurrence of old is cut out
ReplaceFirst(s, old) ==
    LET at == {i \in 1..(Len(s) - Len(old) + 1) :
                    SubSeq(s, i, i + Len(old) - 1) = old}
    IN  IF old = <<>> \/ at = {} THEN s
        ELSE LET i == CHOOSE i \in at : \A j \in at : i <= j
             IN  SubSeq(s, 1, i - 1) \o SubSeq(s, i + Len(old), Len(s))

\* s.buffer.path: the default "/tmp/manifold/aws_s3/", or Args["bufferPath"]
BufferRoots ==
    {<<Sep, "tmp", Sep, "manifold", Sep, "aws_s3", Sep>>,
     <<Sep, "data">>, <<"buf">>, <<Dot, Sep, "buf">>}
\* Config.Folder
Folders == {<<Folder>>, <<Folder, Sep, "in">>}
\* names of day directories and of sealed files
DayNames == {"2020-01-01", "2020-01-02"}
StampNames == {"000000.000000001", "235959.999999999"}

InitKey ==
    /\ SinkInit /\ wallBack = 0 /\ ex = ExOff
    /\ \E root \in BufferRoots, folder \in Folders, day \in DayNames,
          name \in StampNames :
            kx = [stage |-> "walk", root |-> root, folder |-> folder,
                  day |-> day, name |-> name, file |-> <<>>, key |-> <<>>]

KeyStep(next) == kx' = next /\ UNCHANGED <<sinkVars, wallBack, ex>>

\* filepath.Walk: the path handed to the walk function is Join(Join(root,
\* day), name)
KeyWalk ==
    /\ kx.stage = "walk"
    /\ KeyStep([kx EXCEPT !.stage = "replace",
                          !.file = JoinPath(JoinPath(kx.root, <<kx.day>>),
                                            <<kx.name>>)])

\* key := strings.Replace(file, s.buffer.path, "", 1)
KeyReplace ==
    /\ kx.stage = "replace"
    /\ KeyStep([kx EXCEPT !.stage = "join",
                          !.key = ReplaceFirst(kx.file, kx.root)])

\* key = filepath.Join(s.Config.Folder, key)
KeyJoin ==
    /\ kx.stage = "join"
    /\ KeyStep([kx EXCEPT !.stage = "done",
                          !.key = JoinPath(kx.folder, kx.key)])

NextKey == KeyWalk \/ KeyReplace \/ KeyJoin

SpecKey == InitKey /\ [][NextKey]_vars

(* ------------------------- derived quantities ------------------------- *)
\* the records of a sequence, each followed by a newline
RECURSIVE Lines(_)
Lines(records) ==
    IF records = <<>> THEN <<>>
    ELSE AppendBytes(<<>>, Head(records)) \o Lines(Tail(records))

\* the bytes of the live file, empty when there is none
LiveBytes == IF live = 0 THEN <<>> ELSE inodes[live]

\* the bytes of the i first sealed files, in the order of their renames
RECURSIVE SealedBytes(_)
SealedBytes(i) ==
    IF i = 0 THEN <<>> ELSE SealedBytes(i - 1) \o inodes[sealed[i][2]]

\* every sealed file ever produced, then the live file
DiskStream == SealedBytes(Len(sealed)) \o LiveBytes

\* the records whose append has written
Written == SubSeq(taken, 1, Len(taken) - inflight)

IsPrefix(a, b) == Len(a) <= Len(b) /\ SubSeq(b, 1, Len(a)) = a
IsSuffix(a, b) == Len(a) <= Len(b) /\ SubSeq(b, Len(b) - Len(a) + 1, Len(b)) = a

SizeLimit == CommitFileSize * KBytes
SizeReached == live # 0 /\ Size(live) >= SizeLimit
AgeReached == Minutes(now - timeCommitted) >= CommitDuration

(* ------------------------------- claims ------------------------------- *)

C2_SealedNeverMutated ==
    \A i \in 1..Len(sealed) :
        (sealed[i][1] \in DOMAIN units /\ units[sealed[i][1]] = sealed[i][2])
            => inodes[sealed[i][2]] = sealed[i][3]

\* the collector has received and appended as many records as Write accepted
Consumed == Len(taken) = Len(accepted) /\ queue = <<>> /\ inflight = 0

\* C3: before any rotation, once the collector has consumed every record
\* Write accepted, the live file is the records in Write order, each
\* followed by a newline.
C3_FifoOnDisk ==
    (sealed = <<>> /\ Consumed) => LiveBytes = Lines(accepted)

\* C3 witness: two records written and consumed, no rotation yet.
C3_Witness ==
    /\ sealed = <<>> /\ Consumed
    /\ Len(accepted) >= 2 /\ live # 0

\* the paths of the sealed files ever produced
SealedPaths == {sealed[i][1] : i \in 1..Len(sealed)}

\* the uploader holds the acknowledgement for file and is about to remove it
AboutToRemove(file) == uPc = "remove" /\ files # <<>> /\ Head(files) = file

\* C4 (as claimed): a sealed file is removed only if its object was
\* acknowledged, once its upload is acknowledged and the uploader is done
\* with it the file is removed, and a file whose transfer failed is still
\* on disk.
C4_DeletedIffAcked ==
    \A p \in SealedPaths :
        /\ p \notin DOMAIN units => Key(p) \in DOMAIN remote
        /\ (Key(p) \in DOMAIN remote /\ ~AboutToRemove(p)) => p \notin DOMAIN units
        /\ p \in failed => p \in DOMAIN units

\* C5 (as claimed): once the uploader has removed a sealed file, the object
\* under its key holds every byte ever written into that file.
C5_RemoteHoldsUnit ==
    \A i \in 1..Len(sealed) :
        sealed[i][1] \in removed
            => /\ Key(sealed[i][1]) \in DOMAIN remote
               /\ remote[Key(sealed[i][1])] = inodes[sealed[i][2]]

\* C6 (as claimed): after a failed transfer has been handled, every record
\* Write had accepted is in the live file or in a sealed file (uploaded or
\* not).
C6_NoLossOnUploadFailure ==
    exit = "uploadFatal" => DiskStream = Lines(accepted)

\* C7: the channel never holds more than its capacity (a Write at a full
\* channel does not complete), and while the process runs the records Write
\* has accepted are exactly the records the collector has received followed
\* by the records still buffered, in order: none dropped, none twice.
C7_WriteNeverDrops ==
    Running => /\ Len(queue) <= QueueCap
               /\ accepted = taken \o queue

\* C7 witness: the channel is full and the producer has a record to write;
\* Write is blocked.
C7_Witness ==
    /\ Running /\ ~closed
    /\ Len(queue) = QueueCap /\ Len(accepted) < MaxWrites
    /\ ~ENABLED (\E m \in Msgs : Write(m))

\* C8: when the collector's loop has ended after Disconnect, the channel is
\* empty, every accepted record was received and appended, the records that
\* were buffered at the close are the last bytes on disk, in order, and the
\* roll and upload goroutines have not been stopped.
C8_DrainThenStop ==
    cPc = "done" =>
        /\ closed /\ queue = <<>>
        /\ taken = accepted /\ inflight = 0
        /\ IsSuffix(Lines(queuedAtClose), DiskStream)
        /\ rPc \in {"start", "check", "sleep", "rename", "stamp"}
        /\ uPc \in {"dirExists", "sleep", "sleepNoRoot", "walk", "visit", "read",
                   "upload", "remove"}

\* C8 witness: the loop has ended after a close that found records buffered,
\* and a rotation has happened since.
C8_Witness ==
    /\ cPc = "done" /\ Len(queuedAtClose) = QueueCap
    /\ Len(sealed) >= 1 /\ live = 0

\* the roll goroutine is at the top of its loop and its next pass seals
SealsNext == ENABLED (RollCheck /\ rPc' = "rename")

\* the position of the roll goroutine after a pass that began with the
\* threshold met: it is sealing (or the process has exited), not sleeping
Sealing == rPc' \in {"check", "rename", "dead"}

\* a rename step: exactly one sealed file appears, it holds exactly the bytes
\* of the live file at that instant, the others are untouched and the live
\* entry is gone
RenameSealsLive ==
    (rPc = "rename" /\ rPc' = "stamp") =>
        /\ Len(sealed') = Len(sealed) + 1
        /\ commitPath \notin DOMAIN units
        /\ DOMAIN units' = DOMAIN units \cup {commitPath}
        /\ \A q \in DOMAIN units : units'[q] = units[q]
        /\ inodes'[units'[commitPath]] = LiveBytes
        /\ live' = 0

\* a live file starts empty on an inode of its own and is only appended to
FreshLiveFile ==
    /\ (live = 0 /\ live' # 0) =>
            /\ inodes'[live'] = <<>>
            /\ \A i \in 1..Len(sealed) : sealed[i][2] # live'
    /\ (live # 0 /\ live' = live) => IsPrefix(inodes[live], inodes'[live])

\* C9: once the live file holds at least CommitFileSize*1024 bytes, the next
\* pass of the roll goroutine seals it; the rename produces exactly one
\* sealed file holding exactly the live file's bytes at that instant; the
\* next append creates an empty live file, which from then on holds only
\* what is appended to it.
C9_SizeRotation ==
    /\ []((Running /\ rPc = "check" /\ SizeReached) => SealsNext)
    /\ [][((rPc = "check" /\ SizeReached) => Sealing)
          /\ RenameSealsLive /\ FreshLiveFile]_vars

\* C9 witness: at time 0 (no age threshold can be met) a file that had reached
\* the size threshold is sealed, and a new live file holds a record.
C9_Witness ==
    /\ now = 0 /\ Len(sealed) = 1 /\ Len(sealed[1][3]) >= SizeLimit
    /\ live # 0 /\ inodes[live] # <<>>

\* nothing is buffered or being appended
NoWrites == queue = <<>> /\ cPc \in {"recv", "done"}

\* C10 (as claimed): with no writes under way, a pass of the roll goroutine
\* made once CommitDuration minutes have passed since the last rotation (or
\* the start) seals a file.
C10_AgeRotationAsClaimed ==
    [][(rPc = "check" /\ AgeReached /\ NoWrites) => Sealing]_vars

\* C10 (amended): if a live file exists once CommitDuration minutes have
\* passed since the last rotation (or the start), the next pass of the roll
\* goroutine seals it, whatever its size.
C10_AgeRotation ==
    /\ []((Running /\ rPc = "check" /\ live # 0 /\ AgeReached) => SealsNext)
    /\ [][(rPc = "check" /\ live # 0 /\ AgeReached) => Sealing]_vars

\* C10 witness: a live file below the size threshold was sealed, the age
\* threshold being met, with no write under way.
C10_Witness ==
    /\ Len(sealed) >= 1 /\ Len(sealed[Len(sealed)][3]) < SizeLimit
    /\ sealed[Len(sealed)][3] # <<>>
    /\ rPc = "stamp" /\ AgeReached /\ NoWrites

\* the example's size threshold in bytes, and the bytes on disk
ExThreshold == ExCommitFileSize * ExKB
RECURSIVE ExSum(_)
ExSum(sizes) == IF sizes = <<>> THEN 0 ELSE Head(sizes) + ExSum(Tail(sizes))
ExOnDisk == ExSum(ex.units) + ex.live

\* every record is appended and the roll goroutine finds nothing to seal
ExDone ==
    /\ ex.got = ExRecords /\ ex.cPc = "recv" /\ ex.rPc = "check"
    /\ ~(ex.hasLive /\ ex.live >= ExThreshold)

\* C11 (as claimed): the example's run ends with exactly one sealed file, of
\* at least 1024 bytes, and the rest in a new live file; there is never a
\* second rotation.
C11_ExactlyOneRotation ==
    /\ Len(ex.units) <= 1
    /\ ExDone => /\ Len(ex.units) = 1 /\ ex.units[1] >= ExThreshold
                 /\ ex.hasLive

\* C11 (amended): each record takes ExRecordLen + 1 bytes on disk, so the
\* example's run ends with one or two sealed files, depending on the
\* interleaving; every sealed file has at least 1024 bytes, what is left
\* (less than 1024 bytes, or nothing) is in the live file, which is not
\* sealed, and sealed files and live file together hold every record with
\* its newline.
C11_OneOrTwoRotations ==
    /\ Len(ex.units) <= 2
    /\ \A i \in 1..Len(ex.units) : ex.units[i] >= ExThreshold
    /\ ExDone => /\ Len(ex.units) \in {1, 2}
                 /\ ex.live < ExThreshold
                 /\ ExOnDisk = ExRecords * (ExRecordLen + 1)

\* C11 witness: the run has ended after two rotations, with a remainder in a
\* third file.
C11_Witness == ExDone /\ Len(ex.units) = 2 /\ ex.hasLive /\ ex.live > 0

\* C12: the files a walk collects are sealed files, none is named "buffer";
\* the file the uploader reads, uploads and removes is one of them, and no
\* sealed entry names the inode of the live file: the uploader never reads,
\* uploads or removes the live file.
C12_LiveFileExcluded ==
    /\ \A i \in 1..Len(files) :
            BaseName(files[i]) # BufferName /\ files[i] \in SealedPaths
    /\ uPc \in {"read", "upload", "remove"} => files # <<>>
    /\ live # 0 => \A p \in DOMAIN units : units[p] # live

\* C12 witness: a walk has collected a sealed file while a live file with a
\* record in it exists.
C12_Witness ==
    /\ uPc = "read" /\ files # <<>>
    /\ live # 0 /\ inodes[live] # <<>>

\* C13 (as claimed): two renames never produce the same path, a rename never
\* goes onto a sealed file that exists, and a file sealed later has the
\* lexically later path.
C13_UniqueOrderedNames ==
    /\ \A i, j \in 1..Len(sealed) :
            i < j => /\ sealed[i][1] # sealed[j][1]
                     /\ PathBefore(sealed[i][1], sealed[j][1])
    /\ rPc = "rename" => commitPath \notin DOMAIN units

\* C14 (as claimed): the key computed for the sealed file <root>/<day>/<time>
\* is <Folder>/<day>/<time>.
C14_KeyIsFolderDayTime ==
    kx.stage = "done" => kx.key = kx.folder \o <<Sep, kx.day, Sep, kx.name>>

\* C15 (as claimed): the uploader finds the buffer root missing only if its
\* creation failed; where the creation has succeeded, the uploader is not
\* sleeping on a root it found missing.
C15_RootSeenUnlessCreationFailed == rootExists => uPc # "sleepNoRoot"

\* C16 (as claimed): a goroutine goes on past a local I/O operation only if
\* the operation has taken effect (its failure ends the process): the
\* creation of the root, the append, the rename, the read of a sealed file
\* and its removal.
C16_LocalIOErrorFatal ==
    [][/\ (cPc = "mkdir" /\ cPc' = "recv") => rootExists'
       /\ (cPc = "write" /\ cPc' = "recv")
            => inodes'[cFd] = AppendBytes(inodes[cFd], cMsg)
       /\ (rPc = "rename" /\ rPc' = "stamp")
            => commitPath \in DOMAIN units' /\ live' = 0
       /\ (uPc = "read" /\ uPc' = "upload")
            => body' = inodes[units[Head(files)]]
       /\ (uPc = "remove" /\ uPc' \in {"read", "sleep"})
            => Head(files) \notin DOMAIN units']_vars

\* C17 (as claimed): a walk that has listed the live file goes on without a
\* walk error when the roll goroutine has renamed that file since.
C17_RotationDuringScanHarmless ==
    [][(uPc = "visit" /\ uSawBuffer /\ live = 0) => exit' # "walkPanic"]_vars

\* the position, in the order of the renames, of the rename that made path p
CreatedAt(p) ==
    CHOOSE i \in 1..Len(sealed) :
        /\ sealed[i][1] = p
        /\ \A j \in (i + 1)..Len(sealed) : sealed[j][1] # p

\* C18 (as claimed): the files a walk has collected are in the order in
\* which they were sealed, so the uploader, which takes them from the head,
\* uploads them in the order of their creation.
C18_UploadsInCreationOrder ==
    \A i, j \in 1..Len(files) :
        i < j => CreatedAt(files[i]) < CreatedAt(files[j])

\* what the i first sealed files have delivered or can still deliver: the
\* bytes of a file that is on disk, the bytes of its object once it is removed
RECURSIVE KeptBytes(_)
KeptBytes(i) ==
    IF i = 0 THEN <<>>
    ELSE KeptBytes(i - 1) \o
         (IF /\ sealed[i][1] \in DOMAIN units
             /\ units[sealed[i][1]] = sealed[i][2]
          THEN inodes[sealed[i][2]]
          ELSE IF Key(sealed[i][1]) \in DOMAIN remote
          THEN remote[Key(sealed[i][1])]
          ELSE <<>>)

\* the record the collector has received and not yet written
InHand == SubSeq(taken, Len(taken) - inflight + 1, Len(taken))

\* C19 (as claimed), in the form a finite run refutes: while the process
\* runs, every record Write has accepted is in a remote object or still on
\* its way there: in the channel, in the collector's hand, in the live file
\* or in a sealed file on disk. (A record in none of these places is never
\* delivered, however the goroutines are scheduled.)
C19_EveryRecordDeliverable ==
    Running =>
        KeptBytes(Len(sealed)) \o LiveBytes \o Lines(InHand) \o Lines(queue)
            = Lines(accepted)

\* C20 (as claimed): at its rename a sealed file is not empty and ends with
\* the newline of a complete record.
C20_SealedWholeRecords ==
    \A i \in 1..Len(sealed) :
        /\ sealed[i][3] # <<>>
        /\ sealed[i][3][Len(sealed[i][3])] = NL

====
